---- MODULE Spec2Model ----
(***************************************************************************)
(* A model of the rebalancing and execution engine of the trading bot:     *)
(*   - RateLimiter and OrderExecutor        (src/python_bot/src/executor.py)*)
(*   - PortfolioRebalancer                (src/python_bot/src/rebalancer.py)*)
(*   - StockPicker                       (src/python_bot/src/stock_picker.py)*)
(*                                                                         *)
(* Time is the value of time.time() in whole seconds.  Money and share     *)
(* quantities are Decimal values; the model keeps them as integers, see    *)
(* the section on the rebalancer.                                          *)
(***************************************************************************)
EXTENDS Integers, Sequences, FiniteSets, TLC

\* ---------------------------------------------------------------- bounds

\* The clock does not advance past MaxTime.
MaxTime == 12
\* RateLimiter(max_requests, window_seconds): max_requests ranges over
\* 1..MaxRequests, window_seconds is WindowSeconds (the defaults, 6 per
\* 3600 s, scaled down).
MaxRequests == 2
WindowSeconds == 3
\* safety.max_daily_trades and safety.max_single_trade_cad (scaled down).
MaxDailyTrades == 2
MaxSingleTradeCad == 5
\* Number of orders handed to one executor, over all its execute_orders calls.
MaxOrders == 3
\* Number of acquire() calls made directly on a limiter (SpecLimiter).
MaxAdmissions == 4
\* Decimal values are kept to DecDigits digits after the point.
DecDigits == 2
\* Longest selection and longest list of positions handed to calculate_targets.
MaxSimOrders == 2
MaxPicks == 3
MaxPositions == 2
\* pick_stocks(num_picks): the argument ranges over 0..MaxNumPicks;
\* stock_picker.num_picks is ConfigNumPicks and stock_picker.max_per_sector
\* ranges over 1..MaxPerSector (the defaults 7 and 2, scaled down).
MaxNumPicks == 3
ConfigNumPicks == 2
MaxPerSector == 2
\* stock_picker.min_market_cap_millions and stock_picker.min_avg_volume, in
\* units of the model.
MinMarketCap == 2
MinAvgVolume == 1

\* time.sleep(5) between the sell group and the buy group.
CooldownSeconds == 5
\* rebalancer.drift_threshold_pct and rebalancer.min_trade_value_cad (defaults).
DriftThresholdPct == 5
MinTradeValueCad == 1

VARIABLES
    now,                \* time.time()
    \* RateLimiter
    max_requests,       \* self._max_requests
    timestamps,         \* self._timestamps (deque, oldest first)
    wake,               \* the time at which the pending time.sleep() returns
    ret,                \* where acquire() returns to
    answer,             \* value returned by the last can_proceed / remaining_capacity,
                        \* with the time of the call and the number of admissions then
    \* OrderExecutor
    pc,                 \* position of the thread of control
    sell_orders,        \* arguments of the running execute_orders call
    buy_orders,
    group,              \* which of the two loops is running: "sell" or "buy"
    idx,                \* index of `order` in the running for-loop (1-based)
    results,            \* local list `results`
    returned,           \* value returned by the last execute_orders call
    executed_orders,    \* self._executed_orders
    daily_trade_count,  \* self._daily_trade_count
    given,              \* number of orders handed to execute_orders so far
    \* history (not program state): what happened, for stating the properties
    admitted,           \* every timestamp acquire() ever recorded, in order
    trace,              \* events of the running execute_orders call
    outcomes,           \* how each place_order call ended, over all runs, in order
    \* PortfolioRebalancer: the arguments of calculate_targets and what it and
    \* generate_orders return
    rpc,                \* "input", "planned", "raised" or "orders"
    selected_symbols,   \* [s.symbol for s in selected_stocks]
    current_positions,
    cash_balance,
    security_prices,
    summary,            \* the PortfolioSummary returned, or the error raised
    gen_sell_orders,    \* the two lists generate_orders returns
    gen_buy_orders,
    \* StockPicker.pick_stocks: its argument, the configuration it reads, and
    \* its locals
    ppc,                \* position in pick_stocks
    num_picks,          \* the argument num_picks
    max_per_sector,     \* stock_picker.max_per_sector
    sector_diversity,   \* stock_picker.sector_diversity
    prefer_etfs,        \* stock_picker.prefer_etfs
    scores,             \* the local list `scores`
    ranks,              \* the five lists of ranks built by _rank_and_score
    sorted_scores,      \* history: `scores` as sorted by step 5
    picks,              \* the list returned
    \* TradingBot: the configuration, the command line and the last run
    mode,               \* trading.mode
    live_mode_confirmation, \* trading.live_mode_confirmation, as written
    live_override,      \* --live
    response,           \* what input() gave to the last confirmation prompt
    stage,              \* how far the last run_pipeline call went
    \* DryRunSimulator.simulate_orders: its arguments, its position and the
    \* fields of the simulator
    spc,
    sim_sell_orders,
    sim_buy_orders,
    current_cash,
    sim_prices,
    sidx,               \* index of `order` in the running for-loop (1-based)
    simulated_cash,     \* self._simulated_cash
    simulated_orders,   \* self._simulated_orders
    \* WealthsimpleClient: one get / post / delete call
    cpc,                \* position in the call
    method,             \* "get", "post" or "delete"
    sent,               \* the status of every request the call sent, in order
    reauths,            \* number of forced re-authentications of the call
    outcome             \* how the call ended

limVars  == <<max_requests, timestamps, wake, ret, answer, admitted>>
execVars == <<pc, sell_orders, buy_orders, group, idx, results, returned,
              executed_orders, daily_trade_count, given, trace, outcomes>>
rebVars  == <<rpc, selected_symbols, current_positions, cash_balance, security_prices,
              summary, gen_sell_orders, gen_buy_orders>>
pickVars == <<ppc, num_picks, max_per_sector, sector_diversity, prefer_etfs, scores,
              ranks, sorted_scores, picks>>
pipeVars == <<mode, live_mode_confirmation, live_override, response, stage>>
simVars  == <<spc, sim_sell_orders, sim_buy_orders, current_cash, sim_prices, sidx,
              simulated_cash, simulated_orders>>
cliVars  == <<cpc, method, sent, reauths, outcome>>
vars == <<now, limVars, execVars, rebVars, pickVars, pipeVars, simVars, cliVars>>

Max(a, b) == IF a >= b THEN a ELSE b
Min(a, b) == IF a <= b THEN a ELSE b

\* ------------------------------------------------------------------ Decimal
\* Decimal arithmetic.  Python's Decimal keeps 28 significant digits and rounds
\* half-even; the model keeps DecDigits digits after the point and rounds
\* half-even: the Decimal x is the integer x * DecScale.  Sums and differences
\* are exact, products and quotients are rounded.  All operands of a product
\* or quotient below are non-negative.

RECURSIVE Pow10(_)
Pow10(n) == IF n = 0 THEN 1 ELSE 10 * Pow10(n - 1)

DecScale == Pow10(DecDigits)

\* n / d rounded half-even to an integer (n >= 0, d > 0).
RoundHalfEven(n, d) ==
    LET q == n \div d
        r == n % d
    IN  IF 2 * r < d THEN q
        ELSE IF 2 * r > d THEN q + 1
        ELSE IF q % 2 = 0 THEN q ELSE q + 1

\* Decimal * Decimal and Decimal / Decimal.
DecMul(a, b) == RoundHalfEven(a * b, DecScale)
DecDiv(a, b) == RoundHalfEven(a * DecScale, b)

\* The Decimal of a whole number.
Dec(n) == n * DecScale

Abs(x) == IF x < 0 THEN -x ELSE x

\* The first for-loop of execute_orders taking the buy list (and the second
\* the sell list).
CurOrdersBuysFirst == IF group = "sell" THEN buy_orders ELSE sell_orders

\* The list the running for-loop of execute_orders iterates over: sell_orders
\* in the first loop (lines 67-75), buy_orders in the second (lines 84-92).
CurOrders == IF group = "sell" THEN sell_orders ELSE buy_orders

\* An entry of the history of the running call: what happened to the order at
\* position idx of the running loop.
Event(op) == [op |-> op, group |-> group, idx |-> idx, side |-> CurOrders[idx].side]

\* -------------------------------------------------------------- RateLimiter

\* _prune_expired with the cutoff taken as time.time(), the window forgotten.
RECURSIVE PruneExpiredCutoffNow(_, _)
PruneExpiredCutoffNow(ts, t) ==
    IF ts # <<>> /\ Head(ts) < t
    THEN PruneExpiredCutoffNow(Tail(ts), t)
    ELSE ts

\* _prune_expired at clock value t: pop from the left while the oldest
\* timestamp is strictly older than the cutoff t - window_seconds.
RECURSIVE PruneExpired(_, _)
PruneExpired(ts, t) ==
    IF ts # <<>> /\ Head(ts) < t - WindowSeconds
    THEN PruneExpired(Tail(ts), t)
    ELSE ts

\* The loop guard of acquire() off by one: len > max_requests.
WindowFullOffByOne(ts) == Len(ts) > max_requests

\* The loop guard of acquire(): len(self._timestamps) >= self._max_requests.
WindowFull(ts) == Len(ts) >= max_requests

\* The wait without its extra second and without the floor of one second.
SleepSecondsNoFloor(ts, t) == WindowSeconds - (t - ts[1])

\* wait_time = window_seconds - (time.time() - oldest) + 1, slept max(wait_time, 1).
SleepSeconds(ts, t) == Max(WindowSeconds - (t - ts[1]) + 1, 1)

\* Time passes, at any point of the program.
Tick ==
    /\ now < MaxTime
    /\ now' = now + 1
    /\ UNCHANGED <<limVars, execVars>>
    /\ UNCHANGED <<rebVars, pickVars, pipeVars, simVars, cliVars>>

\* Time passes while the program is in time.sleep() (line 27 or line 80); the
\* sleep may last longer than asked.
SleepTick ==
    /\ now < MaxTime
    /\ pc \in {"acq_sleep", "cooldown"}
    /\ now' = now + 1
    /\ UNCHANGED <<limVars, execVars>>
    /\ UNCHANGED <<rebVars, pickVars, pipeVars, simVars, cliVars>>

\* acquire(), line 19: prune, then evaluate the while condition.
AcquirePrune ==
    /\ pc = "acq_prune"
    /\ timestamps' = PruneExpired(timestamps, now)
    /\ pc' = IF WindowFull(timestamps') THEN "acq_wait" ELSE "acq_append"
    /\ UNCHANGED <<now, max_requests, wake, ret, answer, admitted>>
    /\ UNCHANGED <<sell_orders, buy_orders, group, idx, results, returned,
                   executed_orders, daily_trade_count, given, trace, outcomes>>
    /\ UNCHANGED <<rebVars, pickVars, pipeVars, simVars, cliVars>>

\* acquire(), lines 21-27: read the clock, compute the wait, go to sleep.
AcquireWait ==
    /\ pc = "acq_wait"
    /\ wake' = now + SleepSeconds(timestamps, now)
    /\ pc' = "acq_sleep"
    /\ UNCHANGED <<now, max_requests, timestamps, ret, answer, admitted>>
    /\ UNCHANGED <<sell_orders, buy_orders, group, idx, results, returned,
                   executed_orders, daily_trade_count, given, trace, outcomes>>
    /\ UNCHANGED <<rebVars, pickVars, pipeVars, simVars, cliVars>>

\* acquire(), lines 27-28 and 20: the sleep returns (no earlier than asked),
\* prune again, evaluate the while condition again.
AcquireWake ==
    /\ pc = "acq_sleep"
    /\ now >= wake
    /\ timestamps' = PruneExpired(timestamps, now)
    /\ pc' = IF WindowFull(timestamps') THEN "acq_wait" ELSE "acq_append"
    /\ UNCHANGED <<now, max_requests, wake, ret, answer, admitted>>
    /\ UNCHANGED <<sell_orders, buy_orders, group, idx, results, returned,
                   executed_orders, daily_trade_count, given, trace, outcomes>>
    /\ UNCHANGED <<rebVars, pickVars, pipeVars, simVars, cliVars>>

\* acquire(), line 30: record the admission and return to the caller.
AcquireAppend ==
    /\ pc = "acq_append"
    /\ timestamps' = Append(timestamps, now)
    /\ admitted' = Append(admitted, now)
    /\ pc' = ret
    /\ trace' = IF ret = "place" THEN Append(trace, Event("admit")) ELSE trace
    /\ UNCHANGED <<now, max_requests, wake, ret, answer>>
    /\ UNCHANGED <<sell_orders, buy_orders, group, idx, results, returned,
                   executed_orders, daily_trade_count, given, outcomes>>
    /\ UNCHANGED <<rebVars, pickVars, pipeVars, simVars, cliVars>>

\* A caller invokes acquire() on the limiter.
AcquireCall ==
    /\ pc = "idle"
    /\ Len(admitted) < MaxAdmissions
    /\ pc' = "acq_prune"
    /\ ret' = "idle"
    /\ UNCHANGED <<now, max_requests, timestamps, wake, answer, admitted>>
    /\ UNCHANGED <<sell_orders, buy_orders, group, idx, results, returned,
                   executed_orders, daily_trade_count, given, trace, outcomes>>
    /\ UNCHANGED <<rebVars, pickVars, pipeVars, simVars, cliVars>>

\* can_proceed() comparing with <= in place of <.
CanProceedOffByOne ==
    /\ pc = "idle"
    /\ timestamps' = PruneExpired(timestamps, now)
    /\ answer' = [op |-> "can_proceed", val |-> Len(timestamps') <= max_requests,
                  at |-> now, admits |-> Len(admitted)]
    /\ UNCHANGED <<now, max_requests, wake, ret, admitted, execVars>>
    /\ UNCHANGED <<rebVars, pickVars, pipeVars, simVars, cliVars>>

\* can_proceed(): prune, then compare.
CanProceed ==
    /\ pc = "idle"
    /\ timestamps' = PruneExpired(timestamps, now)
    /\ answer' = [op |-> "can_proceed", val |-> Len(timestamps') < max_requests,
                  at |-> now, admits |-> Len(admitted)]
    /\ UNCHANGED <<now, max_requests, wake, ret, admitted, execVars>>
    /\ UNCHANGED <<rebVars, pickVars, pipeVars, simVars, cliVars>>

\* remaining_capacity: prune, then max(0, max_requests - len).
RemainingCapacity ==
    /\ pc = "idle"
    /\ timestamps' = PruneExpired(timestamps, now)
    /\ answer' = [op |-> "remaining_capacity",
                  val |-> Max(0, max_requests - Len(timestamps')),
                  at |-> now, admits |-> Len(admitted)]
    /\ UNCHANGED <<now, max_requests, wake, ret, admitted, execVars>>
    /\ UNCHANGED <<rebVars, pickVars, pipeVars, simVars, cliVars>>

\* ------------------------------------------------------------ OrderExecutor

\* OrderRequest: side is order_type (SELL / BUY), limit_price and quantity.
OrderKinds(side) ==
    { [side |-> side, limit_price |-> Dec(MaxSingleTradeCad - 2), quantity |-> q] : q \in 0..2 }
    \cup { [side |-> side, limit_price |-> 0, quantity |-> 1] }

\* The lists generate_orders can hand over: sell_orders holds SELL requests
\* only, buy_orders BUY requests only.
OrderLists(side, n) == [1..n -> OrderKinds(side)]

\* _validate_order without the quantity check.
ValidateOrderNoQuantityCheck(order) ==
    IF order.limit_price * order.quantity > Dec(MaxSingleTradeCad) THEN FALSE
    ELSE TRUE

\* _validate_order: False when limit_price * quantity > max_single_trade_cad,
\* False when quantity < 1, True otherwise.
ValidateOrder(order) ==
    IF order.limit_price * order.quantity > Dec(MaxSingleTradeCad) THEN FALSE
    ELSE IF order.quantity < 1 THEN FALSE
    ELSE TRUE

\* The daily-limit test off by one: count > max_daily.
DailyLimitReachedOffByOne == daily_trade_count > MaxDailyTrades

\* The test at the top of both for-loops: self._daily_trade_count >= max_daily.
DailyLimitReached == daily_trade_count >= MaxDailyTrades

\* execute_orders starting each call with a fresh daily count.
ExecuteOrdersResetsCount ==
    /\ pc = "idle"
    /\ \E ns \in 0..(MaxOrders - given) :
       \E nb \in 0..(MaxOrders - given - ns) :
       \E s \in OrderLists("sell", ns), b \in OrderLists("buy", nb) :
          /\ sell_orders' = s
          /\ buy_orders' = b
          /\ given' = given + Len(s) + Len(b)
    /\ results' = <<>>
    /\ group' = "sell"
    /\ idx' = 1
    /\ trace' = <<>>
    /\ pc' = "loop"
    /\ daily_trade_count' = 0
    /\ UNCHANGED <<now, limVars, returned, executed_orders, outcomes>>
    /\ UNCHANGED <<rebVars, pickVars, pipeVars, simVars, cliVars>>

\* execute_orders(sell_orders, buy_orders) is called: lines 62-66.
ExecuteOrders ==
    /\ pc = "idle"
    /\ \E ns \in 0..(MaxOrders - given) :
       \E nb \in 0..(MaxOrders - given - ns) :
       \E s \in OrderLists("sell", ns), b \in OrderLists("buy", nb) :
          /\ sell_orders' = s
          /\ buy_orders' = b
          /\ given' = given + Len(s) + Len(b)
    /\ results' = <<>>
    /\ group' = "sell"
    /\ idx' = 1
    /\ trace' = <<>>
    /\ pc' = "loop"
    /\ UNCHANGED <<now, limVars, returned, executed_orders, daily_trade_count, outcomes>>
    /\ UNCHANGED <<rebVars, pickVars, pipeVars, simVars, cliVars>>

\* Where control goes when a for-loop ends, by exhaustion or by break.
AfterLoop == IF group = "sell" THEN "pause" ELSE "finish"

\* The for-loop has no order left.
LoopExhausted ==
    /\ pc = "loop"
    /\ idx > Len(CurOrders)
    /\ pc' = AfterLoop
    /\ UNCHANGED <<now, limVars, sell_orders, buy_orders, group, idx, results, returned,
                   executed_orders, daily_trade_count, given, trace, outcomes>>
    /\ UNCHANGED <<rebVars, pickVars, pipeVars, simVars, cliVars>>

\* Lines 68-70 / 85-87: the daily limit is reached, break.
LoopBreak ==
    /\ pc = "loop"
    /\ idx <= Len(CurOrders)
    /\ DailyLimitReached
    /\ trace' = Append(trace, Event("break"))
    /\ pc' = AfterLoop
    /\ UNCHANGED <<now, limVars, sell_orders, buy_orders, group, idx, results, returned,
                   executed_orders, daily_trade_count, given, outcomes>>
    /\ UNCHANGED <<rebVars, pickVars, pipeVars, simVars, cliVars>>

\* Lines 71-72 / 88-89: the order fails validation, continue.
LoopReject ==
    /\ pc = "loop"
    /\ idx <= Len(CurOrders)
    /\ ~DailyLimitReached
    /\ ~ValidateOrder(CurOrders[idx])
    /\ trace' = Append(trace, Event("reject"))
    /\ idx' = idx + 1
    /\ UNCHANGED <<now, limVars, pc, sell_orders, buy_orders, group, results, returned,
                   executed_orders, daily_trade_count, given, outcomes>>
    /\ UNCHANGED <<rebVars, pickVars, pipeVars, simVars, cliVars>>

\* Lines 73 / 90 and 102-103: _execute_single enters acquire().
LoopExecute ==
    /\ pc = "loop"
    /\ idx <= Len(CurOrders)
    /\ ~DailyLimitReached
    /\ ValidateOrder(CurOrders[idx])
    /\ pc' = "acq_prune"
    /\ ret' = "place"
    /\ UNCHANGED <<now, max_requests, timestamps, wake, answer, admitted>>
    /\ UNCHANGED <<sell_orders, buy_orders, group, idx, results, returned,
                   executed_orders, daily_trade_count, given, trace, outcomes>>
    /\ UNCHANGED <<rebVars, pickVars, pipeVars, simVars, cliVars>>

\* Lines 104-111 and 74-75 / 91-92: place_order returns a response, which is
\* counted and appended to results.
PlaceReturns ==
    /\ pc = "place"
    /\ \E st \in {"submitted", "rejected"} :
          /\ results' = Append(results, [group |-> group, idx |-> idx, status |-> st])
          /\ outcomes' = Append(outcomes, st)
    /\ daily_trade_count' = daily_trade_count + 1
    /\ trace' = Append(trace, Event("return"))
    /\ idx' = idx + 1
    /\ pc' = "loop"
    /\ UNCHANGED <<now, limVars, sell_orders, buy_orders, group, returned,
                   executed_orders, given>>
    /\ UNCHANGED <<rebVars, pickVars, pipeVars, simVars, cliVars>>

\* place_order raises and nothing catches it: the error leaves execute_orders.
PlaceRaisesUncaught ==
    /\ pc = "place"
    /\ outcomes' = Append(outcomes, "raise")
    /\ trace' = Append(trace, Event("raise"))
    /\ pc' = "idle"
    /\ UNCHANGED <<now, limVars, sell_orders, buy_orders, group, idx, results, returned,
                   executed_orders, daily_trade_count, given>>
    /\ UNCHANGED <<rebVars, pickVars, pipeVars, simVars, cliVars>>

\* Lines 104 and 112-114: place_order raises, _execute_single returns None.
PlaceRaises ==
    /\ pc = "place"
    /\ outcomes' = Append(outcomes, "raise")
    /\ trace' = Append(trace, Event("raise"))
    /\ idx' = idx + 1
    /\ pc' = "loop"
    /\ UNCHANGED <<now, limVars, sell_orders, buy_orders, group, results, returned,
                   executed_orders, daily_trade_count, given>>
    /\ UNCHANGED <<rebVars, pickVars, pipeVars, simVars, cliVars>>

\* Line 78 with `or` in place of `and`.
PauseSleepEitherGroup ==
    /\ pc = "pause"
    /\ sell_orders # <<>> \/ buy_orders # <<>>
    /\ wake' = now + CooldownSeconds
    /\ pc' = "cooldown"
    /\ UNCHANGED <<now, max_requests, timestamps, ret, answer, admitted>>
    /\ UNCHANGED <<sell_orders, buy_orders, group, idx, results, returned,
                   executed_orders, daily_trade_count, given, trace, outcomes>>
    /\ UNCHANGED <<rebVars, pickVars, pipeVars, simVars, cliVars>>

\* Lines 78-80: both lists are non-empty, sleep 5 seconds.
PauseSleep ==
    /\ pc = "pause"
    /\ sell_orders # <<>> /\ buy_orders # <<>>
    /\ wake' = now + CooldownSeconds
    /\ pc' = "cooldown"
    /\ UNCHANGED <<now, max_requests, timestamps, ret, answer, admitted>>
    /\ UNCHANGED <<sell_orders, buy_orders, group, idx, results, returned,
                   executed_orders, daily_trade_count, given, trace, outcomes>>
    /\ UNCHANGED <<rebVars, pickVars, pipeVars, simVars, cliVars>>

\* Line 78: one of the lists is empty, no pause; lines 83-84: the buy loop starts.
PauseSkip ==
    /\ pc = "pause"
    /\ ~(sell_orders # <<>> /\ buy_orders # <<>>)
    /\ group' = "buy"
    /\ idx' = 1
    /\ pc' = "loop"
    /\ UNCHANGED <<now, limVars, sell_orders, buy_orders, results, returned,
                   executed_orders, daily_trade_count, given, trace, outcomes>>
    /\ UNCHANGED <<rebVars, pickVars, pipeVars, simVars, cliVars>>

\* Line 80 returns (no earlier than asked); lines 83-84: the buy loop starts.
CooldownWake ==
    /\ pc = "cooldown"
    /\ now >= wake
    /\ group' = "buy"
    /\ idx' = 1
    /\ pc' = "loop"
    /\ UNCHANGED <<now, limVars, sell_orders, buy_orders, results, returned,
                   executed_orders, daily_trade_count, given, trace, outcomes>>
    /\ UNCHANGED <<rebVars, pickVars, pipeVars, simVars, cliVars>>

\* Lines 94-99 with self._executed_orders overwritten instead of extended.
FinishOverwrite ==
    /\ pc = "finish"
    /\ executed_orders' = results
    /\ returned' = results
    /\ pc' = "idle"
    /\ sell_orders' = <<>>
    /\ buy_orders' = <<>>
    /\ results' = <<>>
    /\ group' = "sell"
    /\ idx' = 1
    /\ trace' = <<>>
    /\ UNCHANGED <<now, limVars, daily_trade_count, given, outcomes>>
    /\ UNCHANGED <<rebVars, pickVars, pipeVars, simVars, cliVars>>

\* Lines 94-99: extend self._executed_orders and return results.  The locals
\* of the call are dropped.
Finish ==
    /\ pc = "finish"
    /\ executed_orders' = executed_orders \o results
    /\ returned' = results
    /\ pc' = "idle"
    /\ sell_orders' = <<>>
    /\ buy_orders' = <<>>
    /\ results' = <<>>
    /\ group' = "sell"
    /\ idx' = 1
    /\ trace' = <<>>
    /\ UNCHANGED <<now, limVars, daily_trade_count, given, outcomes>>
    /\ UNCHANGED <<rebVars, pickVars, pipeVars, simVars, cliVars>>

\* get_execution_summary(), lines 131-138.
GetExecutionSummary ==
    LET successful == SelectSeq(executed_orders, LAMBDA o : o.status # "rejected")
    IN  [total_orders      |-> Len(executed_orders),
         successful        |-> Len(successful),
         failed            |-> Len(executed_orders) - Len(successful),
         daily_trades_used |-> daily_trade_count]

\* ------------------------------------------------------ PortfolioRebalancer
SymbolOrder == <<"A", "B", "C">>
Symbols == { SymbolOrder[i] : i \in DOMAIN SymbolOrder }
Rank(y) == CHOOSE i \in DOMAIN SymbolOrder : SymbolOrder[i] = y

\* sum(p.market_value for p in current_positions)
RECURSIVE SumMarketValue(_)
SumMarketValue(positions) ==
    IF positions = <<>> THEN 0
    ELSE Head(positions).market_value + SumMarketValue(Tail(positions))

\* pos_map.get(symbol): pos_map = {p.symbol: p for p in current_positions}
\* keeps the last position of a symbol.  HasPosition tells None apart.
HasPosition(positions, symbol) ==
    \E i \in DOMAIN positions : positions[i].symbol = symbol

PosMapGet(positions, symbol) ==
    LET last == CHOOSE i \in DOMAIN positions :
                    /\ positions[i].symbol = symbol
                    /\ \A j \in DOMAIN positions : positions[j].symbol = symbol => j <= i
    IN  positions[last]

\* security_prices.get(symbol, Decimal("0")); a symbol without a quote is
\* kept in the model as price 0 (the default the code reads).
PriceOf(prices, symbol) == prices[symbol]

\* Line 81 with `and` in place of `or`.
DecisionHoldNeedsBoth(drift_pct, trade_value) ==
    IF drift_pct < Dec(DriftThresholdPct) /\ Abs(trade_value) < Dec(MinTradeValueCad)
    THEN "hold"
    ELSE IF trade_value > 0 THEN "buy" ELSE "sell"

\* Lines 81-89: the action of a selected symbol, from its drift and from
\* trade_value = target_value_per - current_value.
Decision(drift_pct, trade_value) ==
    IF drift_pct < Dec(DriftThresholdPct) \/ Abs(trade_value) < Dec(MinTradeValueCad)
    THEN "hold"
    ELSE IF trade_value > 0 THEN "buy" ELSE "sell"

\* Lines 61-106, one pass of the loop over selected_symbols: the target of the
\* symbol (price > 0).
SelectedTarget(symbol, positions, prices, total_value, target_weight, target_value_per) ==
    LET price == PriceOf(prices, symbol)
        current_value ==
            IF HasPosition(positions, symbol)
            THEN PosMapGet(positions, symbol).market_value ELSE 0
        current_weight ==
            IF total_value > 0 THEN DecDiv(current_value, total_value) ELSE 0
        drift_pct ==
            IF target_weight > 0
            THEN DecDiv(Abs(current_weight - target_weight), target_weight) * 100
            ELSE 0
        trade_value == target_value_per - current_value
        abs_trade == Abs(trade_value)
        capped == Min(abs_trade, Dec(MaxSingleTradeCad))
        hold == Decision(drift_pct, trade_value) = "hold"
    IN  [symbol         |-> symbol,
         target_weight  |-> target_weight,
         target_value   |-> target_value_per,
         current_value  |-> current_value,
         current_weight |-> current_weight,
         drift_pct      |-> drift_pct,
         action         |-> Decision(drift_pct, trade_value),
         trade_value    |-> abs_trade,
         trade_quantity |-> IF hold THEN 0 ELSE DecDiv(capped, price) \div DecScale]

\* Lines 109-125, one pass of the loop over current_positions: the forced
\* sell target of a held position that is not selected.
LiquidationTarget(pos, total_value) ==
    [symbol         |-> pos.symbol,
     target_weight  |-> 0,
     target_value   |-> 0,
     current_value  |-> pos.market_value,
     current_weight |-> IF total_value > 0 THEN DecDiv(pos.market_value, total_value)
                        ELSE 0,
     drift_pct      |-> Dec(100),
     action         |-> "sell",
     trade_value    |-> pos.market_value,
     trade_quantity |-> pos.quantity \div DecScale]

InSeq(x, seq) == \E i \in DOMAIN seq : seq[i] = x

\* The test of line 31 with < in place of <=.
NothingToTradeStrict(total_value) == total_value < 0

\* Line 31: total_value <= 0.
NothingToTrade(total_value) == total_value <= 0

\* Line 42 dividing by one bucket more than there are.
TargetWeightOffByOne(num_buckets) == DecDiv(Dec(1), Dec(num_buckets + 1))

\* Line 42: target_weight = Decimal("1") / Decimal(str(num_buckets)), for
\* num_buckets > 0.
TargetWeight(num_buckets) == DecDiv(Dec(1), Dec(num_buckets))

\* calculate_targets, lines 27-138.  The result is the PortfolioSummary, or
\* raised = TRUE when an exception leaves the function.
CalculateTargets(selected, positions, cash, prices) ==
    LET positions_value == SumMarketValue(positions)
        total_value == cash + positions_value
        num_buckets == Len(selected)
        empty == [raised |-> FALSE, total_value |-> total_value, cash_balance |-> cash,
                  positions_value |-> positions_value, num_holdings |-> Len(positions),
                  targets |-> <<>>]
    IN  IF NothingToTrade(total_value) THEN empty
        ELSE IF num_buckets = 0
        \* line 42: Decimal("1") / Decimal("0") raises decimal.DivisionByZero
        THEN [empty EXCEPT !.raised = TRUE]
        ELSE
        LET target_weight == TargetWeight(num_buckets)
            target_value_per == DecMul(total_value, target_weight)
            sel[i \in 0..Len(selected)] ==
                IF i = 0 THEN <<>>
                ELSE IF PriceOf(prices, selected[i]) <= 0 THEN sel[i - 1]
                ELSE Append(sel[i - 1],
                            SelectedTarget(selected[i], positions, prices, total_value,
                                           target_weight, target_value_per))
            liq[i \in 0..Len(positions)] ==
                IF i = 0 THEN <<>>
                ELSE IF ~InSeq(positions[i].symbol, selected) /\ positions[i].quantity > 0
                THEN Append(liq[i - 1], LiquidationTarget(positions[i], total_value))
                ELSE liq[i - 1]
        IN  [empty EXCEPT !.targets = sel[Len(selected)] \o liq[Len(positions)]]

\* Line 147 without the test of trade_quantity.
SellOrderOfNoQuantityTest(target) ==
    IF target.action = "hold" THEN <<>>
    ELSE IF target.action = "sell"
    THEN << [side |-> "sell", symbol |-> target.symbol,
             quantity |-> target.trade_quantity,
             limit_price |-> IF target.trade_quantity > 0
                             THEN DecDiv(target.current_value, Dec(target.trade_quantity))
                             ELSE 0] >>
    ELSE <<>>

\* generate_orders, lines 146-180: the order of one target, as a sequence of
\* no or one order.
SellOrderOf(target) ==
    IF target.action = "hold" \/ target.trade_quantity < 1 THEN <<>>
    ELSE IF target.action = "sell"
    THEN << [side |-> "sell", symbol |-> target.symbol,
             quantity |-> target.trade_quantity,
             limit_price |-> IF target.trade_quantity > 0
                             THEN DecDiv(target.current_value, Dec(target.trade_quantity))
                             ELSE 0] >>
    ELSE <<>>

BuyOrderOf(target) ==
    IF target.action = "hold" \/ target.trade_quantity < 1 THEN <<>>
    ELSE IF target.action = "buy"
    THEN << [side |-> "buy", symbol |-> target.symbol,
             quantity |-> target.trade_quantity,
             limit_price |->
                IF target.trade_quantity > 0 /\ target.current_value > 0
                THEN DecDiv(target.current_value, Dec(target.trade_quantity))
                ELSE IF target.trade_quantity > 0
                THEN DecDiv(target.target_value, Dec(target.trade_quantity))
                ELSE 0] >>
    ELSE <<>>

RECURSIVE SellOrders(_)
SellOrders(targets) ==
    IF targets = <<>> THEN <<>>
    ELSE SellOrderOf(Head(targets)) \o SellOrders(Tail(targets))

RECURSIVE BuyOrders(_)
BuyOrders(targets) ==
    IF targets = <<>> THEN <<>>
    ELSE BuyOrderOf(Head(targets)) \o BuyOrders(Tail(targets))

\* The inputs of calculate_targets.
\* Selections: distinct symbols, in any order.
Selections ==
    { s \in UNION { [1..n -> Symbols] : n \in 0..MaxPicks } :
        \A i, j \in DOMAIN s : i # j => s[i] # s[j] }

\* A position as account_service.get_positions builds it: the market value is
\* quantity * current_price; quantities may be fractional.
PositionsOf(symbol) ==
    { [symbol |-> symbol, quantity |-> q, current_price |-> p,
       market_value |-> DecMul(q, p)] :
        q \in {0, DecScale \div 2, Dec(2)}, p \in {0, Dec(3)} }

\* Lists of positions, one per symbol at most, in the order of the symbols.
PositionLists ==
    { ps \in UNION { [1..n -> UNION { PositionsOf(y) : y \in Symbols }] :
                       n \in 0..MaxPositions } :
        \A i, j \in DOMAIN ps : i < j => Rank(ps[i].symbol) < Rank(ps[j].symbol) }

\* The quotes: 0 stands for a symbol get_bulk_quotes left out.
PriceMaps == [Symbols -> {0, Dec(3)}]

\* cash_balance: a debit, nothing, ten dollars, and one cent (the last digit
\* kept) less than three dollars.
CashChoices == {Dec(-6), 0, Dec(3) - 1, Dec(10)}

\* calculate_targets returns.
CalculateTargetsReturns ==
    /\ rpc = "input"
    /\ LET r == CalculateTargets(selected_symbols, current_positions, cash_balance,
                                 security_prices)
       IN  /\ ~r.raised
           /\ summary' = r
    /\ rpc' = "planned"
    /\ UNCHANGED <<selected_symbols, current_positions, cash_balance, security_prices,
                   gen_sell_orders, gen_buy_orders>>
    /\ UNCHANGED <<now, limVars, execVars, pickVars, pipeVars, simVars, cliVars>>

\* calculate_targets raises.
CalculateTargetsRaises ==
    /\ rpc = "input"
    /\ LET r == CalculateTargets(selected_symbols, current_positions, cash_balance,
                                 security_prices)
       IN  /\ r.raised
           /\ summary' = r
    /\ rpc' = "raised"
    /\ UNCHANGED <<selected_symbols, current_positions, cash_balance, security_prices,
                   gen_sell_orders, gen_buy_orders>>
    /\ UNCHANGED <<now, limVars, execVars, pickVars, pipeVars, simVars, cliVars>>

\* generate_orders(summary) on the summary calculate_targets returned.
GenerateOrders ==
    /\ rpc = "planned"
    /\ gen_sell_orders' = SellOrders(summary.targets)
    /\ gen_buy_orders' = BuyOrders(summary.targets)
    /\ rpc' = "orders"
    /\ UNCHANGED <<selected_symbols, current_positions, cash_balance, security_prices,
                   summary>>
    /\ UNCHANGED <<now, limVars, execVars, pickVars, pipeVars, simVars, cliVars>>

\* -------------------------------------------------------------- StockPicker
\* config.get_stock_universe(): the symbols, in the order of the configuration.
Universe == SymbolOrder

\* _apply_filters, lines 159-175.
ApplyFilters(list) ==
    SelectSeq(list, LAMBDA s :
        /\ ~(~s.is_etf /\ s.market_cap > 0 /\ s.market_cap < MinMarketCap)
        /\ ~(s.avg_volume < MinAvgVolume))

\* percentile_rank dividing by n.
PercentileRankOverN(values) ==
    [i \in DOMAIN values |->
        [num |-> Cardinality({ j \in DOMAIN values :
                                 \/ values[j] < values[i]
                                 \/ values[j] = values[i] /\ j < i }),
         den |-> Len(values)]]

\* percentile_rank, lines 182-187: sorted() is stable and ascending, so the
\* rank_idx of values[i] is the number of values before it in the sorted
\* list: the smaller ones and the equal ones that come earlier.  The rank
\* rank_idx / max(n - 1, 1) is kept as the fraction num / den.
PercentileRank(values) ==
    [i \in DOMAIN values |->
        [num |-> Cardinality({ j \in DOMAIN values :
                                 \/ values[j] < values[i]
                                 \/ values[j] = values[i] /\ j < i }),
         den |-> Max(Len(values) - 1, 1)]]

\* The values of the five factors, lines 189-194.
FactorNames == {"return_90d", "sharpe_ratio", "return_30d", "avg_volume", "inv_volatility"}

FactorValues(list, factor) ==
    [i \in DOMAIN list |->
        CASE factor = "return_90d"     -> list[i].return_90d
          [] factor = "sharpe_ratio"   -> list[i].sharpe_ratio
          [] factor = "return_30d"     -> list[i].return_30d
          [] factor = "avg_volume"     -> list[i].avg_volume
          [] factor = "inv_volatility" -> 0 - list[i].volatility]

FactorRanks(list) == [f \in FactorNames |-> PercentileRank(FactorValues(list, f))]

\* Lines 199-210: the composite score of scores[i], in units of
\* 1 / (100 * max(n - 1, 1)): the weights are 0.30, 0.25, 0.20, 0.15, 0.10 and
\* the bonus of an ETF is 0.10.  The sum is exact here; the code adds floats.
Composite(list, rk, i, prefer) ==
    30 * rk["return_90d"][i].num + 25 * rk["sharpe_ratio"][i].num
    + 20 * rk["return_30d"][i].num + 15 * rk["avg_volume"][i].num
    + 10 * rk["inv_volatility"][i].num
    + (IF prefer /\ list[i].is_etf THEN 10 * Max(Len(list) - 1, 1) ELSE 0)

\* _rank_and_score, lines 177-212 (n > 0).
RankAndScore(list, prefer) ==
    [i \in DOMAIN list |->
        [list[i] EXCEPT !.composite_score = Composite(list, FactorRanks(list), i, prefer)]]

\* scores.sort(key=composite_score, reverse=True), line 59: the sort is
\* stable, equal scores keep their order.
SortByComposite(list) ==
    LET place(i) == 1 + Cardinality({ j \in DOMAIN list :
                        \/ list[j].composite_score > list[i].composite_score
                        \/ list[j].composite_score = list[i].composite_score /\ j < i })
    IN  [p \in DOMAIN list |-> list[CHOOSE i \in DOMAIN list : place(i) = p]]

\* sector_counts.get(s.sector, 0) after the candidates of `kept`.
SectorCount(kept, sector) ==
    Cardinality({ i \in DOMAIN kept : kept[i].sector = sector })

\* The test of line 221 with <= in place of <.
ApplySectorDiversityOffByOne(list, max_per) ==
    LET div[i \in 0..Len(list)] ==
            IF i = 0 THEN <<>>
            ELSE IF SectorCount(div[i - 1], list[i].sector) <= max_per
                 THEN Append(div[i - 1], list[i])
                 ELSE div[i - 1]
    IN  div[Len(list)]

\* _apply_sector_diversity, lines 214-229.
ApplySectorDiversity(list, max_per) ==
    LET div[i \in 0..Len(list)] ==
            IF i = 0 THEN <<>>
            ELSE IF SectorCount(div[i - 1], list[i].sector) < max_per
                 THEN Append(div[i - 1], list[i])
                 ELSE div[i - 1]
    IN  div[Len(list)]

\* The slice one longer than asked.
SliceOneMore(list, n) == SubSeq(list, 1, Min(n + 1, Len(list)))

\* list[:n], line 67.
Slice(list, n) ==
    IF n >= 0 THEN SubSeq(list, 1, Min(n, Len(list)))
    ELSE SubSeq(list, 1, Max(Len(list) + n, 0))

\* Lines 24-25: the number of picks in force.
NumPicks == IF num_picks = 0 THEN ConfigNumPicks ELSE num_picks

\* The StockScore records _calculate_metrics may return for a symbol: an ETF
\* or a stock of a sector; large enough and traded enough, too small, or too
\* thinly traded; with a low or a high 90-day return.  All have the same
\* 30-day return and no two the same volatility.
ScoresOf(y) ==
    { [symbol |-> y, sector |-> sec, is_etf |-> (sec = "ETF"),
       market_cap |-> screen[1], avg_volume |-> screen[2],
       return_90d |-> r, sharpe_ratio |-> r, return_30d |-> 0,
       volatility |-> Rank(y), composite_score |-> 0] :
        sec \in {"ETF", "Tech"},
        screen \in { <<MinMarketCap, MinAvgVolume>>,
                     <<MinMarketCap - 1, MinAvgVolume>>,
                     <<0, MinAvgVolume - 1>> },
        r \in {0, 1} }

\* `scores` after step 2 (lines 38-47): one record for each symbol of the
\* universe that has data, in the order of the universe.
ScoreLists ==
    { l \in UNION { [1..n -> UNION { ScoresOf(y) : y \in Symbols }] :
                      n \in 0..Len(Universe) } :
        \A i, j \in DOMAIN l : i < j => Rank(l[i].symbol) < Rank(l[j].symbol) }

NoRanks == [f \in FactorNames |-> <<>>]

\* Lines 50-53: no score passes the filters, pick_stocks returns [].
FilterLeavesNone ==
    /\ ppc = "metrics"
    /\ ApplyFilters(scores) = <<>>
    /\ scores' = <<>>
    /\ picks' = <<>>
    /\ ppc' = "done"
    /\ UNCHANGED <<num_picks, max_per_sector, sector_diversity, prefer_etfs, ranks,
                   sorted_scores>>
    /\ UNCHANGED <<now, limVars, execVars, rebVars, pipeVars, simVars, cliVars>>

\* Line 50: some scores pass the filters.
FilterKeepsSome ==
    /\ ppc = "metrics"
    /\ ApplyFilters(scores) # <<>>
    /\ scores' = ApplyFilters(scores)
    /\ ppc' = "filtered"
    /\ UNCHANGED <<num_picks, max_per_sector, sector_diversity, prefer_etfs, ranks,
                   sorted_scores, picks>>
    /\ UNCHANGED <<now, limVars, execVars, rebVars, pipeVars, simVars, cliVars>>

\* Line 56: scores = self._rank_and_score(scores).
RankAndScoreStep ==
    /\ ppc = "filtered"
    /\ ranks' = FactorRanks(scores)
    /\ scores' = RankAndScore(scores, prefer_etfs)
    /\ ppc' = "ranked"
    /\ UNCHANGED <<num_picks, max_per_sector, sector_diversity, prefer_etfs,
                   sorted_scores, picks>>
    /\ UNCHANGED <<now, limVars, execVars, rebVars, pipeVars, simVars, cliVars>>

\* Line 59: scores.sort(...).
SortStep ==
    /\ ppc = "ranked"
    /\ scores' = SortByComposite(scores)
    /\ sorted_scores' = SortByComposite(scores)
    /\ ppc' = "sorted"
    /\ UNCHANGED <<num_picks, max_per_sector, sector_diversity, prefer_etfs, ranks,
                   picks>>
    /\ UNCHANGED <<now, limVars, execVars, rebVars, pipeVars, simVars, cliVars>>

\* Lines 62-64 with sector_diversity set.
SectorDiversityStep ==
    /\ ppc = "sorted"
    /\ sector_diversity
    /\ scores' = ApplySectorDiversity(scores, max_per_sector)
    /\ ppc' = "diverse"
    /\ UNCHANGED <<num_picks, max_per_sector, sector_diversity, prefer_etfs, ranks,
                   sorted_scores, picks>>
    /\ UNCHANGED <<now, limVars, execVars, rebVars, pipeVars, simVars, cliVars>>

\* Line 62 with sector_diversity not set: the pass is not made.
SectorDiversityOff ==
    /\ ppc = "sorted"
    /\ ~sector_diversity
    /\ ppc' = "diverse"
    /\ UNCHANGED <<num_picks, max_per_sector, sector_diversity, prefer_etfs, scores,
                   ranks, sorted_scores, picks>>
    /\ UNCHANGED <<now, limVars, execVars, rebVars, pipeVars, simVars, cliVars>>

\* Lines 67-75: picks = scores[:num_picks]; return picks.
TakeTopN ==
    /\ ppc = "diverse"
    /\ picks' = Slice(scores, NumPicks)
    /\ ppc' = "done"
    /\ UNCHANGED <<num_picks, max_per_sector, sector_diversity, prefer_etfs, scores,
                   ranks, sorted_scores>>
    /\ UNCHANGED <<now, limVars, execVars, rebVars, pipeVars, simVars, cliVars>>

\* --------------------------------------------------------------- TradingBot
\* str.strip() on the line typed: leading and trailing blanks are removed.
RECURSIVE StripLeft(_)
StripLeft(text) ==
    IF text # <<>> /\ Head(text) = " " THEN StripLeft(Tail(text)) ELSE text

RECURSIVE StripRight(_)
StripRight(text) ==
    IF text # <<>> /\ text[Len(text)] = " "
    THEN StripRight(SubSeq(text, 1, Len(text) - 1))
    ELSE text

Strip(text) == StripRight(StripLeft(text))

\* What input() may give: a line (a sequence of characters), or EOFError /
\* KeyboardInterrupt.
Responses ==
    { [eof |-> FALSE, text |-> t] :
        t \in { <<"Y", "E", "S">>, <<" ", "Y", "E", "S", " ">>, <<"y", "e", "s">>,
                <<"Y", " ", "E", "S">>, <<>> } }
    \cup { [eof |-> TRUE, text |-> <<>>] }

\* is_live with the --live flag ignored.
IsLiveIgnoresOverride == mode = "live" /\ live_mode_confirmation = "True"

\* config.is_live_mode (mode == "live" and live_mode_confirmation is True)
\* and is_live (is_live_mode and --live).
IsLive ==
    /\ mode = "live" /\ live_mode_confirmation = "True"
    /\ live_override

\* _confirm_live_trading, lines 155-159.
Confirmed(r) == ~r.eof /\ Strip(r.text) = <<"Y", "E", "S">>

\* run_pipeline returns before step 6: authentication or a collaborator
\* raises (lines 140-141), the account is not found (lines 81-83) or there is
\* no pick (lines 99-101).
PipelineReturnsEarly ==
    /\ pc = "idle"
    /\ stage # "returned_early"
    /\ stage' = "returned_early"
    /\ UNCHANGED <<mode, live_mode_confirmation, live_override, response>>
    /\ UNCHANGED <<now, limVars, execVars, rebVars, pickVars, simVars, cliVars>>

\* Lines 131-136: not live, the orders are simulated.
PipelineSimulates ==
    /\ pc = "idle"
    /\ ~IsLive
    /\ stage # "simulated"
    /\ stage' = "simulated"
    /\ UNCHANGED <<mode, live_mode_confirmation, live_override, response>>
    /\ UNCHANGED <<now, limVars, execVars, rebVars, pickVars, simVars, cliVars>>

\* Lines 123-127: live, the operator does not confirm.
PipelineCancelled ==
    /\ pc = "idle"
    /\ IsLive
    /\ \E r \in Responses :
          /\ ~Confirmed(r)
          /\ response' = r
    /\ stage' = "cancelled"
    /\ UNCHANGED <<mode, live_mode_confirmation, live_override>>
    /\ UNCHANGED <<now, limVars, execVars, rebVars, pickVars, simVars, cliVars>>

\* Lines 123-128: live, the operator confirms, execute_orders is called on
\* the orders of step 5 (lines 62-66 of executor.py).
PipelineExecutes ==
    /\ pc = "idle"
    /\ IsLive
    /\ \E r \in Responses :
          /\ Confirmed(r)
          /\ response' = r
    /\ stage' = "executing"
    /\ \E ns \in 0..(MaxOrders - given) :
       \E nb \in 0..(MaxOrders - given - ns) :
       \E s \in OrderLists("sell", ns), b \in OrderLists("buy", nb) :
          /\ sell_orders' = s
          /\ buy_orders' = b
          /\ given' = given + Len(s) + Len(b)
    /\ results' = <<>>
    /\ group' = "sell"
    /\ idx' = 1
    /\ trace' = <<>>
    /\ pc' = "loop"
    /\ UNCHANGED <<now, limVars, returned, executed_orders, daily_trade_count, outcomes>>
    /\ UNCHANGED <<mode, live_mode_confirmation, live_override>>
    /\ UNCHANGED <<rebVars, pickVars, simVars, cliVars>>

\* ---------------------------------------------------------- DryRunSimulator
\* The symbols of the simulated orders.
SimSymbols == {"A", "B"}

\* OrderRequest as simulate_orders reads it: symbol, quantity, limit_price
\* (quantity >= 1, as generate_orders emits).
SimOrderKinds ==
    { [symbol |-> y, quantity |-> q, limit_price |-> l] :
        y \in SimSymbols, q \in 1..2, l \in {Dec(1), Dec(3)} }

SimOrderLists == UNION { [1..n -> SimOrderKinds] : n \in 0..MaxSimOrders }

\* prices: a dict holding a quote (possibly 0) for some of the symbols.
SimPriceMaps == UNION { [S -> {0, Dec(2)}] : S \in SUBSET SimSymbols }

\* current_cash: nothing, two dollars, seven dollars.
SimCashChoices == {0, Dec(2), Dec(7)}

\* prices.get(order.symbol, order.limit_price), lines 37 and 57.
SimPrice(order) ==
    IF order.symbol \in DOMAIN sim_prices THEN sim_prices[order.symbol]
    ELSE order.limit_price

\* value = price * order.quantity (quantity is an int), lines 38 and 58.
SimValue(order) == SimPrice(order) * order.quantity

\* The dict appended to self._simulated_orders.
SimRecord(action, order) ==
    [action |-> action, symbol |-> order.symbol, quantity |-> order.quantity,
     price |-> SimPrice(order), value |-> SimValue(order)]

\* simulate_orders is called: lines 30-31.
SimulateOrders ==
    /\ spc = "idle"
    /\ \E s \in SimOrderLists, b \in SimOrderLists, c \in SimCashChoices,
          pr \in SimPriceMaps :
          /\ sim_sell_orders' = s
          /\ sim_buy_orders' = b
          /\ current_cash' = c
          /\ sim_prices' = pr
          /\ simulated_cash' = c
    /\ simulated_orders' = <<>>
    /\ sidx' = 1
    /\ spc' = "sells"
    /\ UNCHANGED <<now, limVars, execVars, rebVars, pickVars, pipeVars, cliVars>>

\* One iteration of the sell loop, lines 36-53.
SimSell ==
    /\ spc = "sells"
    /\ sidx <= Len(sim_sell_orders)
    /\ simulated_cash' = simulated_cash + SimValue(sim_sell_orders[sidx])
    /\ simulated_orders' = Append(simulated_orders, SimRecord("SELL", sim_sell_orders[sidx]))
    /\ sidx' = sidx + 1
    /\ UNCHANGED <<spc, sim_sell_orders, sim_buy_orders, current_cash, sim_prices>>
    /\ UNCHANGED <<now, limVars, execVars, rebVars, pickVars, pipeVars, cliVars>>

\* The sell loop is over, the buy loop starts (line 56).
SimSellsDone ==
    /\ spc = "sells"
    /\ sidx > Len(sim_sell_orders)
    /\ spc' = "buys"
    /\ sidx' = 1
    /\ UNCHANGED <<sim_sell_orders, sim_buy_orders, current_cash, sim_prices,
                   simulated_cash, simulated_orders>>
    /\ UNCHANGED <<now, limVars, execVars, rebVars, pickVars, pipeVars, cliVars>>

\* An iteration of the buy loop that deducts whatever the cash is.
SimBuyUnchecked ==
    /\ spc = "buys"
    /\ sidx <= Len(sim_buy_orders)
    /\ simulated_cash' = simulated_cash - SimValue(sim_buy_orders[sidx])
    /\ simulated_orders' = Append(simulated_orders, SimRecord("BUY", sim_buy_orders[sidx]))
    /\ sidx' = sidx + 1
    /\ UNCHANGED <<spc, sim_sell_orders, sim_buy_orders, current_cash, sim_prices>>
    /\ UNCHANGED <<now, limVars, execVars, rebVars, pickVars, pipeVars, cliVars>>

\* An iteration of the buy loop that can be paid for, lines 57-81.
SimBuy ==
    /\ spc = "buys"
    /\ sidx <= Len(sim_buy_orders)
    /\ ~(SimValue(sim_buy_orders[sidx]) > simulated_cash)
    /\ simulated_cash' = simulated_cash - SimValue(sim_buy_orders[sidx])
    /\ simulated_orders' = Append(simulated_orders, SimRecord("BUY", sim_buy_orders[sidx]))
    /\ sidx' = sidx + 1
    /\ UNCHANGED <<spc, sim_sell_orders, sim_buy_orders, current_cash, sim_prices>>
    /\ UNCHANGED <<now, limVars, execVars, rebVars, pickVars, pipeVars, cliVars>>

\* An iteration of the buy loop that cannot: lines 60-65, continue.
SimSkipBuy ==
    /\ spc = "buys"
    /\ sidx <= Len(sim_buy_orders)
    /\ SimValue(sim_buy_orders[sidx]) > simulated_cash
    /\ sidx' = sidx + 1
    /\ UNCHANGED <<spc, sim_sell_orders, sim_buy_orders, current_cash, sim_prices,
                   simulated_cash, simulated_orders>>
    /\ UNCHANGED <<now, limVars, execVars, rebVars, pickVars, pipeVars, cliVars>>

\* Line 83: return self._simulated_orders.
SimReturn ==
    /\ spc = "buys"
    /\ sidx > Len(sim_buy_orders)
    /\ spc' = "returned"
    /\ UNCHANGED <<sim_sell_orders, sim_buy_orders, current_cash, sim_prices, sidx,
                   simulated_cash, simulated_orders>>
    /\ UNCHANGED <<now, limVars, execVars, rebVars, pickVars, pipeVars, cliVars>>

\* -------------------------------------------------------- WealthsimpleClient
Methods == {"get", "post", "delete"}

\* resp.status_code of a response.
Statuses == {"200", "201", "204", "400", "401", "404", "500"}

\* The statuses a call accepts: (200, 201) in _handle_response for get and
\* post, (200, 204) in delete.
Accepted(meth) == IF meth = "delete" THEN {"200", "204"} ELSE {"200", "201"}

\* get / post / delete is called: _get_headers() without a forced refresh
\* returns the headers, or the token manager raises.
ClientCall ==
    /\ cpc \in {"idle", "done"}
    /\ \E meth \in Methods : method' = meth
    /\ sent' = <<>>
    /\ reauths' = 0
    /\ \/ cpc' = "send" /\ outcome' = "none"
       \/ cpc' = "done" /\ outcome' = "AuthenticationError"
    /\ UNCHANGED <<now, limVars, execVars, rebVars, pickVars, pipeVars, simVars>>

\* The first request, with every failed response answered by a refresh and a
\* second request.
ClientSendsRetryAnyFailure ==
    /\ cpc = "send"
    /\ sent = <<>>
    /\ \/ \E st \in Statuses :
            /\ sent' = Append(sent, st)
            /\ cpc' = IF st \notin Accepted(method) THEN "refresh" ELSE "handle"
            /\ outcome' = outcome
       \/ /\ sent' = Append(sent, "no response")
          /\ cpc' = "done"
          /\ outcome' = "RequestException"
    /\ UNCHANGED <<method, reauths>>
    /\ UNCHANGED <<now, limVars, execVars, rebVars, pickVars, pipeVars, simVars>>

\* The first request (lines 27, 42, 56) and the test of its status (lines
\* 30, 44, 58); the request may also raise.
ClientSends ==
    /\ cpc = "send"
    /\ sent = <<>>
    /\ \/ \E st \in Statuses :
            /\ sent' = Append(sent, st)
            /\ cpc' = IF st = "401" THEN "refresh" ELSE "handle"
            /\ outcome' = outcome
       \/ /\ sent' = Append(sent, "no response")
          /\ cpc' = "done"
          /\ outcome' = "RequestException"
    /\ UNCHANGED <<method, reauths>>
    /\ UNCHANGED <<now, limVars, execVars, rebVars, pickVars, pipeVars, simVars>>

\* _get_headers(force_refresh=True), lines 32, 46, 59 and 66-69:
\* ensure_authenticated logs in again, or raises.
ClientRefreshes ==
    /\ cpc = "refresh"
    /\ reauths' = reauths + 1
    /\ \/ cpc' = "send" /\ outcome' = outcome
       \/ cpc' = "done" /\ outcome' = "AuthenticationError"
    /\ UNCHANGED <<method, sent>>
    /\ UNCHANGED <<now, limVars, execVars, rebVars, pickVars, pipeVars, simVars>>

\* The second request (lines 33, 47, 60); its status is not tested for 401.
ClientResends ==
    /\ cpc = "send"
    /\ sent # <<>>
    /\ \/ \E st \in Statuses :
            /\ sent' = Append(sent, st)
            /\ cpc' = "handle"
            /\ outcome' = outcome
       \/ /\ sent' = Append(sent, "no response")
          /\ cpc' = "done"
          /\ outcome' = "RequestException"
    /\ UNCHANGED <<method, reauths>>
    /\ UNCHANGED <<now, limVars, execVars, rebVars, pickVars, pipeVars, simVars>>

\* _handle_response (lines 71-81) for get and post, lines 62-63 for delete:
\* a status that is not accepted raises WealthsimpleAPIError, and so does a
\* body that is not JSON (get and post only).
ClientHandles ==
    /\ cpc = "handle"
    /\ cpc' = "done"
    /\ IF sent[Len(sent)] \notin Accepted(method)
       THEN outcome' = "WealthsimpleAPIError"
       ELSE \/ outcome' = "returned"
            \/ method # "delete" /\ outcome' = "WealthsimpleAPIError"
    /\ UNCHANGED <<method, sent, reauths>>
    /\ UNCHANGED <<now, limVars, execVars, rebVars, pickVars, pipeVars, simVars>>

\* ------------------------------------------------------------ specifications

\* RateLimiter.__init__ (lines 13-16) and OrderExecutor.__init__ (lines 50-55).
InitExecutor ==
    /\ now = 0
    /\ timestamps = <<>>
    /\ wake = 0
    /\ ret = "idle"
    /\ answer = [op |-> "none", val |-> 0, at |-> 0, admits |-> 0]
    /\ admitted = <<>>
    /\ pc = "idle"
    /\ sell_orders = <<>>
    /\ buy_orders = <<>>
    /\ group = "sell"
    /\ idx = 1
    /\ results = <<>>
    /\ returned = <<>>
    /\ executed_orders = <<>>
    /\ daily_trade_count = 0
    /\ given = 0
    /\ trace = <<>>
    /\ outcomes = <<>>

\* No call of the rebalancer is under way.
InitRebalancer ==
    /\ rpc = "none"
    /\ selected_symbols = <<>>
    /\ current_positions = <<>>
    /\ cash_balance = 0
    /\ security_prices = [y \in Symbols |-> 0]
    /\ summary = [raised |-> FALSE, total_value |-> 0, cash_balance |-> 0,
                  positions_value |-> 0, num_holdings |-> 0, targets |-> <<>>]
    /\ gen_sell_orders = <<>>
    /\ gen_buy_orders = <<>>

\* No call of pick_stocks is under way.
InitPicker ==
    /\ ppc = "none"
    /\ num_picks = 0
    /\ max_per_sector = 1
    /\ sector_diversity = TRUE
    /\ prefer_etfs = TRUE
    /\ scores = <<>>
    /\ ranks = NoRanks
    /\ sorted_scores = <<>>
    /\ picks = <<>>

\* No pipeline has run: the default configuration, no --live.
InitPipeline ==
    /\ mode = "dry_run"
    /\ live_mode_confirmation = "False"
    /\ live_override = FALSE
    /\ response = [eof |-> FALSE, text |-> <<>>]
    /\ stage = "none"

\* DryRunSimulator.__init__, lines 19-21.
InitSimulator ==
    /\ spc = "idle"
    /\ sim_sell_orders = <<>>
    /\ sim_buy_orders = <<>>
    /\ current_cash = 0
    /\ sim_prices = <<>>
    /\ sidx = 1
    /\ simulated_cash = 0
    /\ simulated_orders = <<>>

\* No call of the client is under way.
InitClient ==
    /\ cpc = "idle"
    /\ method = "get"
    /\ sent = <<>>
    /\ reauths = 0
    /\ outcome = "none"

Init ==
    /\ max_requests \in 1..MaxRequests
    /\ InitExecutor
    /\ InitRebalancer
    /\ InitPicker
    /\ InitPipeline
    /\ InitSimulator
    /\ InitClient

\* The executor: any number of execute_orders calls on one OrderExecutor.
\* The steps of a run are taken as fast as they can be: the clock advances
\* only while the program sleeps.
Next ==
    \/ SleepTick
    \/ ExecuteOrders
    \/ LoopExhausted
    \/ LoopBreak
    \/ LoopReject
    \/ LoopExecute
    \/ AcquirePrune
    \/ AcquireWait
    \/ AcquireWake
    \/ AcquireAppend
    \/ PlaceReturns
    \/ PlaceRaises
    \/ PauseSleep
    \/ PauseSkip
    \/ CooldownWake
    \/ Finish

Spec == Init /\ [][Next]_vars

\* A step of the program itself: everything but the passing of time and the
\* arrival of a new execute_orders call.
ProgramStep ==
    \/ LoopExhausted
    \/ LoopBreak
    \/ LoopReject
    \/ LoopExecute
    \/ AcquirePrune
    \/ AcquireWait
    \/ AcquireWake
    \/ AcquireAppend
    \/ PlaceReturns
    \/ PlaceRaises
    \/ PauseSleep
    \/ PauseSkip
    \/ CooldownWake
    \/ Finish

\* The executor under fair scheduling: the interpreter keeps running the
\* call (a placement returns or raises), and time keeps advancing while the
\* program sleeps.
SpecLive == Init /\ [][Next]_vars /\ WF_vars(ProgramStep) /\ WF_vars(SleepTick)

\* The limiter on its own: any sequence of acquire(), can_proceed() and
\* remaining_capacity calls.
NextLimiter ==
    \/ Tick
    \/ AcquireCall
    \/ AcquirePrune
    \/ AcquireWait
    \/ AcquireWake
    \/ AcquireAppend
    \/ CanProceed
    \/ RemainingCapacity

SpecLimiter == Init /\ [][NextLimiter]_vars

\* The rebalancer: calculate_targets is called on any input, generate_orders
\* on what it returns.
InitRebal ==
    /\ max_requests = 1
    /\ InitExecutor
    /\ rpc = "input"
    /\ selected_symbols \in Selections
    /\ current_positions \in PositionLists
    /\ cash_balance \in CashChoices
    /\ security_prices \in PriceMaps
    /\ summary = [raised |-> FALSE, total_value |-> 0, cash_balance |-> 0,
                  positions_value |-> 0, num_holdings |-> 0, targets |-> <<>>]
    /\ gen_sell_orders = <<>>
    /\ gen_buy_orders = <<>>
    /\ InitPicker
    /\ InitPipeline
    /\ InitSimulator
    /\ InitClient

NextRebal ==
    \/ CalculateTargetsReturns
    \/ CalculateTargetsRaises
    \/ GenerateOrders

SpecRebal == InitRebal /\ [][NextRebal]_vars

\* The picker: pick_stocks is called with any argument, under any
\* configuration, and the metrics of step 2 are any list of scores.
InitPick ==
    /\ max_requests = 1
    /\ InitExecutor
    /\ InitRebalancer
    /\ ppc = "metrics"
    /\ num_picks \in 0..MaxNumPicks
    /\ max_per_sector \in 1..MaxPerSector
    /\ sector_diversity \in BOOLEAN
    /\ prefer_etfs \in BOOLEAN
    /\ scores \in ScoreLists
    /\ ranks = NoRanks
    /\ sorted_scores = <<>>
    /\ picks = <<>>
    /\ InitPipeline
    /\ InitSimulator
    /\ InitClient

NextPick ==
    \/ FilterLeavesNone
    \/ FilterKeepsSome
    \/ RankAndScoreStep
    \/ SortStep
    \/ SectorDiversityStep
    \/ SectorDiversityOff
    \/ TakeTopN

SpecPick == InitPick /\ [][NextPick]_vars

\* The bot: any configuration and command line; run_pipeline is called any
\* number of times (--run-once or the scheduler) on one TradingBot, whose
\* executor and limiter live as long as the process.
InitBot ==
    /\ max_requests \in 1..MaxRequests
    /\ InitExecutor
    /\ InitRebalancer
    /\ InitPicker
    /\ mode \in {"dry_run", "live"}
    /\ live_mode_confirmation \in {"True", "False", "yes"}
    /\ live_override \in BOOLEAN
    /\ response = [eof |-> FALSE, text |-> <<>>]
    /\ stage = "none"
    /\ InitSimulator
    /\ InitClient

NextBot ==
    \/ PipelineReturnsEarly
    \/ PipelineSimulates
    \/ PipelineCancelled
    \/ PipelineExecutes
    \/ SleepTick
    \/ LoopExhausted
    \/ LoopBreak
    \/ LoopReject
    \/ LoopExecute
    \/ AcquirePrune
    \/ AcquireWait
    \/ AcquireWake
    \/ AcquireAppend
    \/ PlaceReturns
    \/ PlaceRaises
    \/ PauseSleep
    \/ PauseSkip
    \/ CooldownWake
    \/ Finish

SpecBot == InitBot /\ [][NextBot]_vars

\* The simulator: one simulate_orders call on any input with non-negative
\* cash and prices.  A later call starts by overwriting both fields of the
\* simulator (lines 30-31), so it behaves as this one.
NextSim ==
    \/ SimulateOrders
    \/ SimSell
    \/ SimSellsDone
    \/ SimBuy
    \/ SimSkipBuy
    \/ SimReturn

SpecSim == Init /\ [][NextSim]_vars

\* The client: any sequence of get, post and delete calls, the server
\* answering anything.
NextClient ==
    \/ ClientCall
    \/ ClientSends
    \/ ClientRefreshes
    \/ ClientResends
    \/ ClientHandles

SpecClient == Init /\ [][NextClient]_vars

\* ------------------------------------------------------------------ claims

\* Number of recorded admissions with a timestamp in the closed window [t - window, t].
AdmittedIn(t) ==
    Cardinality({ j \in DOMAIN admitted :
                    admitted[j] >= t - WindowSeconds /\ admitted[j] <= t })

\* The events of the running call that admit an order or end its placement call.
IsSubmission(e) == e.op \in {"admit", "return", "raise"}

\* C1: acquire() records a timestamp only when fewer than max_requests of the
\* timestamps recorded before it lie in the trailing window; no trailing window
\* (of any end time) holds more than max_requests admissions; and an order is
\* at the placement call only after its own admission was recorded, with the
\* window not over capacity.
C1_WindowNeverExceeded ==
    /\ \A k \in DOMAIN admitted :
          Cardinality({ j \in 1..(k - 1) : admitted[j] >= admitted[k] - WindowSeconds })
              < max_requests
    /\ \A t \in 0..MaxTime : AdmittedIn(t) <= max_requests
    /\ pc = "place" =>
          /\ trace # <<>>
          /\ trace[Len(trace)] = Event("admit")
          /\ admitted # <<>>
          /\ AdmittedIn(now) <= max_requests

\* C1 witness: an order is at the placement call with the window at capacity,
\* after more than max_requests admissions (an earlier one had to age out).
C1_Witness ==
    /\ pc = "place"
    /\ Len(admitted) > max_requests
    /\ AdmittedIn(now) = max_requests

\* C2: of any max_requests + 1 consecutive admissions, the last is recorded no
\* earlier than window_seconds after the first.
C2_NextAdmissionAfterWindow ==
    \A i \in DOMAIN admitted :
        i + max_requests <= Len(admitted) =>
            admitted[i + max_requests] >= admitted[i] + WindowSeconds

\* C2 witness: max_requests + 1 admissions all requested at time 0; the first
\* max_requests are recorded at 0 and the last one after the window.
C2_Witness ==
    /\ Len(admitted) = max_requests + 1
    /\ admitted[max_requests] = 0
    /\ admitted[max_requests + 1] = WindowSeconds + 1

\* C3: in a run of execute_orders, no admission or placement of a sell order
\* comes after an admission or placement of a buy order.
C3_SellsBeforeBuys ==
    \A i, j \in DOMAIN trace :
        (i < j /\ IsSubmission(trace[i]) /\ IsSubmission(trace[j]))
            => ~(trace[i].side = "buy" /\ trace[j].side = "sell")

\* C3 witness: a run that submitted a sell order and a buy order.
C3_Witness ==
    /\ pc = "finish"
    /\ \E i, j \in DOMAIN trace :
          /\ trace[i].op = "admit" /\ trace[i].side = "sell"
          /\ trace[j].op = "admit" /\ trace[j].side = "buy"

\* The admission gates as the specification states them: price x quantity over
\* the per-trade ceiling, or quantity < 1.
Gated(order) ==
    \/ order.limit_price * order.quantity > DecScale * MaxSingleTradeCad
    \/ order.quantity < 1

\* The order a history entry is about.
OrderOf(e) == (IF e.group = "sell" THEN sell_orders ELSE buy_orders)[e.idx]

C5_CountEqualsAttempts == daily_trade_count = Len(outcomes)

\* C6: once the daily trade count has reached max_daily_trades inside a run,
\* no step of that run admits or places an order; the run goes on to its end
\* and returns the outcomes gathered so far.
C6_NothingAfterDailyLimit ==
    [][ (pc # "idle" /\ daily_trade_count >= MaxDailyTrades)
        => (/\ timestamps' = timestamps
            /\ admitted' = admitted
            /\ outcomes' = outcomes
            /\ daily_trade_count' = daily_trade_count
            /\ pc' \in {"loop", "pause", "cooldown", "finish", "idle"}
            /\ \/ pc' # "idle" /\ results' = results
               \/ pc' = "idle" /\ returned' = results
                               /\ executed_orders' = executed_orders \o results) ]_vars

\* C6 witness: a run ends having stopped at the daily limit, with outcomes
\* gathered before the limit was hit.
C6_Witness ==
    /\ pc = "finish"
    /\ daily_trade_count >= MaxDailyTrades
    /\ results # <<>>
    /\ \E i \in DOMAIN trace : trace[i].op = "break"

\* Position (g2, k2) comes after position (g1, k1) in a batch.
LaterInBatch(g1, k1, g2, k2) ==
    \/ g1 = g2 /\ k1 < k2
    \/ g1 = "sell" /\ g2 = "buy"

HasEvent(ops, g, k) ==
    \E i \in DOMAIN trace :
        trace[i].op \in ops /\ trace[i].group = g /\ trace[i].idx = k

\* The loop of group g was left by break at or before position k.
BrokeBy(g, k) ==
    \E i \in DOMAIN trace :
        trace[i].op = "break" /\ trace[i].group = g /\ trace[i].idx <= k

\* The daily limit stopped the loop before position (g, k) was handled.
CeilingBefore(g, k) == BrokeBy(g, k) /\ daily_trade_count >= MaxDailyTrades

\* C7: when place_order raises, the step adds nothing to results and control
\* stays in the loop at the next order; at the end of the run the order has no
\* entry in results, and every later order of the batch was either stopped by
\* the daily ceiling, rejected by the gates, or attempted.
C7_FailureDoesNotAbort ==
    /\ [][ (pc = "place" /\ outcomes' = Append(outcomes, "raise"))
           => (/\ results' = results
               /\ pc' = "loop"
               /\ group' = group
               /\ idx' = idx + 1) ]_vars
    /\ [](pc = "finish" =>
          \A i \in DOMAIN trace : trace[i].op = "raise" =>
            /\ \A r \in DOMAIN results :
                  ~(results[r].group = trace[i].group /\ results[r].idx = trace[i].idx)
            /\ \A g \in {"sell", "buy"} :
               \A k \in 1..Len(IF g = "sell" THEN sell_orders ELSE buy_orders) :
                  LaterInBatch(trace[i].group, trace[i].idx, g, k) =>
                     \/ CeilingBefore(g, k)
                     \/ /\ Gated((IF g = "sell" THEN sell_orders ELSE buy_orders)[k])
                        /\ HasEvent({"reject"}, g, k)
                        /\ ~HasEvent({"admit", "return", "raise"}, g, k)
                     \/ /\ ~Gated((IF g = "sell" THEN sell_orders ELSE buy_orders)[k])
                        /\ HasEvent({"admit"}, g, k)
                        /\ HasEvent({"return", "raise"}, g, k))

\* C7 witness: a run ends in which a placement raised and a later order was
\* placed and returned.
C7_Witness ==
    /\ pc = "finish"
    /\ \E i, j \in DOMAIN trace :
          i < j /\ trace[i].op = "raise" /\ trace[j].op = "return"

\* Number of entries of a sequence that lie in a set.
CountIn(seq, S) == Cardinality({ i \in DOMAIN seq : seq[i] \in S })

C9_NeverRaises == rpc # "raised"

\* C10: when cash plus the market values of the positions is <= 0,
\* calculate_targets returns (it does not raise) a summary with no target and
\* with the totals, and generate_orders returns two empty lists.
C10_NonPositiveTotalNoTargets ==
    cash_balance + SumMarketValue(current_positions) <= 0 =>
        /\ rpc # "raised"
        /\ rpc \in {"planned", "orders"} =>
              /\ summary.targets = <<>>
              /\ summary.total_value = cash_balance + SumMarketValue(current_positions)
              /\ summary.cash_balance = cash_balance
              /\ summary.positions_value = SumMarketValue(current_positions)
              /\ summary.num_holdings = Len(current_positions)
        /\ rpc = "orders" => gen_sell_orders = <<>> /\ gen_buy_orders = <<>>

\* C10 witness: generate_orders has run on a portfolio worth exactly 0 that
\* holds shares of a symbol outside a non-empty selection.
C10_Witness ==
    /\ rpc = "orders"
    /\ cash_balance + SumMarketValue(current_positions) = 0
    /\ selected_symbols # <<>>
    /\ \E i \in DOMAIN current_positions :
          /\ current_positions[i].quantity > 0
          /\ current_positions[i].market_value > 0
          /\ ~InSeq(current_positions[i].symbol, selected_symbols)

\* ---- the targets and the orders of the rebalancer

\* calculate_targets has returned a summary.
Planned == rpc \in {"planned", "orders"}

\* The targets of the selected symbols and the forced-liquidation targets: a
\* liquidation target is only built for a symbol outside the selection.
SelTargets ==
    SelectSeq(summary.targets, LAMBDA t : InSeq(t.symbol, selected_symbols))

LiqTargets ==
    SelectSeq(summary.targets, LAMBDA t : ~InSeq(t.symbol, selected_symbols))

\* C11 (as claimed): every target has action = hold exactly when its
\* trade_quantity is 0, and a trade_value >= 0.
C11_HoldIffZeroQuantity ==
    Planned =>
        \A i \in DOMAIN summary.targets :
            LET t == summary.targets[i]
            IN  /\ (t.action = "hold") <=> (t.trade_quantity = 0)
                /\ t.trade_value >= 0

\* C12 (as claimed): every held position with quantity > 0 whose symbol is
\* not selected gets exactly one target, a sell of the position's whole
\* quantity with drift_pct = 100.
C12_LiquidationSellsWholeQuantity ==
    Planned /\ summary.total_value > 0 =>
        \A i \in DOMAIN current_positions :
            LET pos == current_positions[i]
                mine == { j \in DOMAIN summary.targets :
                            summary.targets[j].symbol = pos.symbol }
            IN  pos.quantity > 0 /\ ~InSeq(pos.symbol, selected_symbols) =>
                    /\ Cardinality(mine) = 1
                    /\ \A j \in mine :
                          /\ summary.targets[j].action = "sell"
                          /\ Dec(summary.targets[j].trade_quantity) = pos.quantity
                          /\ summary.targets[j].drift_pct = Dec(100)

\* C13 (as claimed): the trade_quantity of a buy or sell target of a selected
\* symbol is floor(min(|target_value - current_value|, max_single_trade) / price),
\* so trade_quantity * price is at most that capped value.
C13_QuantityIsFloor ==
    Planned =>
        \A i \in DOMAIN SelTargets :
            LET t == SelTargets[i]
                price == PriceOf(security_prices, t.symbol)
                capped == Min(Abs(t.target_value - t.current_value),
                              Dec(MaxSingleTradeCad))
            IN  t.action \in {"buy", "sell"} =>
                    /\ t.trade_quantity = capped \div price
                    /\ t.trade_quantity * price <= capped

RECURSIVE SumTargetWeight(_)
SumTargetWeight(targets) ==
    IF targets = <<>> THEN 0
    ELSE Head(targets).target_weight + SumTargetWeight(Tail(targets))

\* The selected symbols that have a positive price, in selection order.
PricedSelection ==
    SelectSeq(selected_symbols, LAMBDA y : PriceOf(security_prices, y) > 0)

\* C14 (as claimed): for a selection of k >= 1 symbols and a positive total
\* value, a target is emitted for each of the k symbols and their target
\* weights sum to 1 (here: to within the rounding of the k quotients 1/k).
C14_WeightsSumToOne ==
    Planned /\ Len(selected_symbols) >= 1 /\ summary.total_value > 0 =>
        /\ Len(SelTargets) = Len(selected_symbols)
        /\ 2 * Abs(SumTargetWeight(SelTargets) - Dec(1)) <= Len(selected_symbols)

\* C14 (amended): for a selection of k >= 1 symbols and a positive total
\* value, exactly the selected symbols with a positive price get a target, in
\* selection order; each target weight is 1/k rounded, and the weights sum to
\* j/k within rounding, j being the number of those symbols.
C14_WeightsOfPricedSymbols ==
    Planned /\ Len(selected_symbols) >= 1 /\ summary.total_value > 0 =>
        LET k == Len(selected_symbols)
            j == Len(PricedSelection)
        IN  /\ Len(SelTargets) = j
            /\ \A i \in DOMAIN SelTargets :
                  /\ SelTargets[i].symbol = PricedSelection[i]
                  /\ 2 * Abs(k * SelTargets[i].target_weight - DecScale) <= k
            /\ 2 * Abs(k * SumTargetWeight(SelTargets) - j * DecScale) <= j * k

\* C14 witness: three symbols are selected, one of them has no price, and the
\* two others got their targets.
C14_Witness ==
    /\ Planned
    /\ summary.total_value > 0
    /\ Len(selected_symbols) = 3
    /\ Len(PricedSelection) = 2
    /\ Len(SelTargets) = 2

\* The targets generate_orders turns into orders.
Tradable == SelectSeq(summary.targets,
                      LAMBDA t : t.action # "hold" /\ t.trade_quantity >= 1)

\* orders[i] is the order of targets[i], for every i.
OrdersMatch(orders, targets, side) ==
    /\ Len(orders) = Len(targets)
    /\ \A i \in DOMAIN orders :
          /\ orders[i].side = side
          /\ orders[i].symbol = targets[i].symbol
          /\ orders[i].quantity = targets[i].trade_quantity
          /\ orders[i].quantity >= 1

\* C15: generate_orders emits one order per target that is not hold and has
\* trade_quantity >= 1 and none for any other target; an order has the
\* quantity (>= 1) of its target; the sell list holds the orders of the sell
\* targets and the buy list those of the buy targets, in target order.
C15_OneOrderPerTradableTarget ==
    rpc = "orders" =>
        /\ Len(gen_sell_orders) + Len(gen_buy_orders) = Len(Tradable)
        /\ OrdersMatch(gen_sell_orders,
                       SelectSeq(Tradable, LAMBDA t : t.action = "sell"), "sell")
        /\ OrdersMatch(gen_buy_orders,
                       SelectSeq(Tradable, LAMBDA t : t.action = "buy"), "buy")

\* C15 witness: generate_orders has returned a sell order and a buy order
\* from targets one of which is hold.
C15_Witness ==
    /\ rpc = "orders"
    /\ gen_sell_orders # <<>>
    /\ gen_buy_orders # <<>>
    /\ \E i \in DOMAIN summary.targets : summary.targets[i].action = "hold"

\* ---- the picker

\* The candidate holding the maximum of a factor: among tied maxima, the one
\* the stable ascending sort places last, which is the last of them in the list.
TopOf(values) ==
    CHOOSE i \in DOMAIN values :
        /\ \A j \in DOMAIN values : values[j] <= values[i]
        /\ \A j \in DOMAIN values : values[j] = values[i] => j <= i

\* Every rank of the five lists is a fraction in [0, 1].
RanksInUnitInterval ==
    \A f \in FactorNames :
        /\ DOMAIN ranks[f] = DOMAIN scores
        /\ \A i \in DOMAIN ranks[f] :
              /\ ranks[f][i].den > 0
              /\ 0 <= ranks[f][i].num
              /\ ranks[f][i].num <= ranks[f][i].den

\* C16 (as claimed): for every non-empty candidate set and each of the five
\* factors, every rank lies in [0, 1] and the candidate holding the maximum of
\* the factor has rank 1.
C16_MaxGetsRankOne ==
    ppc = "ranked" =>
        /\ RanksInUnitInterval
        /\ \A f \in FactorNames :
              LET top == TopOf(FactorValues(scores, f))
              IN  ranks[f][top].num = ranks[f][top].den

\* C16 (amended): every rank lies in [0, 1]; among two candidates or more the
\* candidate holding the maximum of a factor has rank 1; a single candidate
\* has rank 0 in every factor.
C16_MaxGetsRankOneOfSeveral ==
    ppc = "ranked" =>
        /\ RanksInUnitInterval
        /\ \A f \in FactorNames :
              LET top == TopOf(FactorValues(scores, f))
              IN  /\ Len(scores) >= 2 => ranks[f][top].num = ranks[f][top].den
                  /\ Len(scores) = 1 => ranks[f][top].num = 0

\* C16 witness: three candidates are ranked, two of them tied at the maximum
\* 90-day return, the first of the two not being the last candidate.
C16_Witness ==
    /\ ppc = "ranked"
    /\ Len(scores) = 3
    /\ scores[1].return_90d = 1
    /\ scores[2].return_90d = 1
    /\ scores[3].return_90d = 0
    /\ ranks["return_90d"][2].num = ranks["return_90d"][2].den
    /\ ranks["return_90d"][1].num < ranks["return_90d"][1].den

\* The place of a candidate in a list (symbols are distinct).
PlaceIn(list, s) == CHOOSE k \in DOMAIN list : list[k].symbol = s.symbol

\* a is b with some candidates removed and nothing reordered.
IsSubsequence(a, b) ==
    /\ \A i \in DOMAIN a : \E k \in DOMAIN b : b[k] = a[i]
    /\ \A i, j \in DOMAIN a : i < j => PlaceIn(b, a[i]) < PlaceIn(b, a[j])

SectorCapKept(list) ==
    \A i \in DOMAIN list : SectorCount(list, list[i].sector) <= max_per_sector

\* C17 (as claimed): in every output of the picker no sector appears more
\* than max_per_sector times, and the output is a subsequence of the list
\* sorted by composite score.
C17_SectorCapAlways ==
    ppc = "done" =>
        /\ SectorCapKept(picks)
        /\ IsSubsequence(picks, sorted_scores)

\* C17 (amended): the output is always a subsequence of the list sorted by
\* composite score, and when sector_diversity is set no sector appears in it
\* more than max_per_sector times.
C17_SectorCapWhenEnabled ==
    ppc = "done" =>
        /\ sector_diversity => SectorCapKept(picks)
        /\ IsSubsequence(picks, sorted_scores)

\* C17 witness: with sector_diversity set, the pass removed a candidate that
\* was sorted before one of the picks.
C17_Witness ==
    /\ ppc = "done"
    /\ sector_diversity
    /\ \E k \in DOMAIN sorted_scores :
          /\ \A i \in DOMAIN picks : picks[i] # sorted_scores[k]
          /\ \E i \in DOMAIN picks : PlaceIn(sorted_scores, picks[i]) > k

\* C18: the picker returns the first min(N, m) candidates of the m survivors
\* of the filters and the diversity pass, in their order, N being the number
\* of picks asked for (the configured number when the argument is 0).
C18_FirstNSurvivors ==
    ppc = "done" =>
        /\ Len(picks) = Min(NumPicks, Len(scores))
        /\ Len(picks) <= NumPicks
        /\ \A i \in DOMAIN picks : picks[i] = scores[i]

\* C18 witness: more candidates survived than were asked for, and as many as
\* asked for were returned.
C18_Witness ==
    /\ ppc = "done"
    /\ Len(scores) > NumPicks
    /\ Len(picks) = NumPicks
    /\ picks # <<>>

\* ---- the cooldown and the queries of the limiter

C20_QueriesLeaveTimestamps ==
    [][ (CanProceed \/ RemainingCapacity) => timestamps' = timestamps ]_vars

\* The last answer of the limiter was given at this instant and nothing was
\* admitted since.
AnswerIsFresh == answer.at = now /\ answer.admits = Len(admitted)

\* C21: at one instant, can_proceed() returns true exactly when
\* remaining_capacity is > 0, and exactly when an acquire() made at that
\* instant finds room at its first test and records its timestamp without
\* sleeping; when can_proceed() returns false that acquire() goes to sleep.
C21_QueriesAgreeWithAcquire ==
    [][ /\ (RemainingCapacity /\ answer.op = "can_proceed" /\ AnswerIsFresh) =>
              (answer.val <=> answer'.val > 0)
        /\ (CanProceed /\ answer.op = "remaining_capacity" /\ AnswerIsFresh) =>
              (answer'.val <=> answer.val > 0)
        /\ (AcquirePrune /\ answer.op = "can_proceed" /\ AnswerIsFresh) =>
              /\ answer.val => pc' = "acq_append"
              /\ ~answer.val => pc' = "acq_wait"
      ]_vars

\* C21 witness: can_proceed() returned false and the acquire() made at the
\* same instant is about to sleep.
C21_Witness ==
    /\ pc = "acq_wait"
    /\ answer.op = "can_proceed"
    /\ answer.val = FALSE
    /\ AnswerIsFresh

\* C22: the target of a selected symbol with a positive price is hold when
\* its drift_pct is below the drift threshold or |target_value - current_value|
\* is below the minimum trade value; otherwise it is buy when target_value is
\* above current_value and sell when it is not.  A selected symbol without a
\* positive price has no target.
C22_DecisionRule ==
    Planned =>
        /\ \A i \in DOMAIN SelTargets :
              LET t == SelTargets[i]
                  gap == t.target_value - t.current_value
                  small == \/ t.drift_pct < Dec(DriftThresholdPct)
                           \/ Abs(gap) < Dec(MinTradeValueCad)
              IN  /\ PriceOf(security_prices, t.symbol) > 0
                  /\ small => t.action = "hold"
                  /\ ~small /\ gap > 0 => t.action = "buy"
                  /\ ~small /\ gap <= 0 => t.action = "sell"
        /\ \A i \in DOMAIN selected_symbols :
              PriceOf(security_prices, selected_symbols[i]) <= 0 =>
                  \A j \in DOMAIN summary.targets :
                      summary.targets[j].symbol # selected_symbols[i]

\* C22 witness: the selection got a hold target for a holding whose drift is
\* at or above the threshold (the gap is below the minimum trade value), a
\* target that is not hold, and no target for a symbol without a price.
C22_Witness ==
    /\ Planned
    /\ \E i \in DOMAIN SelTargets :
          /\ SelTargets[i].action = "hold"
          /\ SelTargets[i].drift_pct >= Dec(DriftThresholdPct)
    /\ \E i \in DOMAIN SelTargets : SelTargets[i].action # "hold"
    /\ Len(PricedSelection) < Len(selected_symbols)

\* ---- the prices of the orders

\* C23 (as claimed): no order with a limit price of 0 is passed to
\* place_order.
C23_NoZeroPricePlaced ==
    pc = "place" => CurOrders[idx].limit_price # 0

\* C24 (as claimed): the limit price of every sell order generate_orders
\* returns is the current value per share held of the position sold:
\* market_value / quantity held.
C24_SellPriceIsValuePerShareHeld ==
    rpc = "orders" =>
        \A i \in DOMAIN gen_sell_orders :
            LET o == gen_sell_orders[i]
                p == PosMapGet(current_positions, o.symbol)
            IN  /\ HasPosition(current_positions, o.symbol)
                /\ o.limit_price = DecDiv(p.market_value, p.quantity)

\* C25 (as claimed): every order generate_orders returns passes
\* _validate_order of an executor with the same max_single_trade_cad:
\* limit_price * quantity <= max_single_trade_cad.
C25_GeneratedOrdersPassTheGate ==
    rpc = "orders" =>
        /\ \A i \in DOMAIN gen_sell_orders : ValidateOrder(gen_sell_orders[i])
        /\ \A i \in DOMAIN gen_buy_orders : ValidateOrder(gen_buy_orders[i])

\* ---- live trading

\* C26 (as claimed): place_order is called only when the configuration is
\* live with live_mode_confirmation true, --live is set, and the operator
\* answered exactly YES.
C26_PlacedOnlyAfterExactYes ==
    pc = "place" =>
        /\ mode = "live"
        /\ live_mode_confirmation = "True"
        /\ live_override
        /\ ~response.eof
        /\ response.text = <<"Y", "E", "S">>

\* C26 (amended): place_order is called only when the configuration is live
\* with live_mode_confirmation true, --live is set, and the line the operator
\* typed is YES once its leading and trailing blanks are stripped.
C26_PlacedOnlyAfterStrippedYes ==
    pc = "place" =>
        /\ mode = "live"
        /\ live_mode_confirmation = "True"
        /\ live_override
        /\ ~response.eof
        /\ Strip(response.text) = <<"Y", "E", "S">>

\* C26 witness: an order is at place_order after the operator typed YES
\* between blanks.
C26_Witness ==
    /\ pc = "place"
    /\ response.text = <<" ", "Y", "E", "S", " ">>

\* ---- the daily count over successive runs

\* The daily trade count when the running execute_orders call started: the
\* count now, less the placements of this call that returned.
CountAtCallStart ==
    daily_trade_count
        - Cardinality({ i \in DOMAIN trace : trace[i].op = "return" })

\* C27: over any sequence of execute_orders calls on one executor the daily
\* trade count never decreases (it is never reset), and a call that starts
\* with the count at max_daily_trades admits and places nothing and returns
\* an empty list.
C27_CountNeverResets ==
    /\ [][ daily_trade_count' >= daily_trade_count ]_vars
    /\ [](  (pc # "idle" /\ CountAtCallStart >= MaxDailyTrades)
            => /\ \A i \in DOMAIN trace : trace[i].op \in {"break", "reject"}
               /\ results = <<>> )

\* C27 witness: a call given at least one order started with the count at
\* the limit and reached its end.
C27_Witness ==
    /\ pc = "finish"
    /\ CountAtCallStart >= MaxDailyTrades
    /\ Len(sell_orders) + Len(buy_orders) >= 1
    /\ trace # <<>>

\* ---- termination

InAcquire == pc \in {"acq_prune", "acq_wait", "acq_sleep", "acq_append"}

\* C28: with max_requests >= 1, as long as time keeps advancing (the clock of
\* the model stops at MaxTime) every acquire() call records its timestamp and
\* returns, and every execute_orders call returns.
C28_AcquireAndRunTerminate ==
    /\ InAcquire ~> (~InAcquire \/ now = MaxTime)
    /\ [][ (InAcquire /\ ~InAcquire') => admitted' = Append(admitted, now) ]_vars
    /\ (pc # "idle") ~> (pc = "idle" \/ now = MaxTime)

\* C28 witness: an acquire() that had to sleep recorded its timestamp before
\* the clock of the model stopped.
C28_Witness ==
    /\ pc = "place"
    /\ now < MaxTime
    /\ wake > 0
    /\ admitted # <<>>
    /\ admitted[Len(admitted)] = now
    /\ admitted[Len(admitted)] >= wake
    /\ Len(admitted) >= 2

\* ---- the dry run

\* The value of the records of one action.
RECURSIVE SumRecorded(_, _)
SumRecorded(recs, action) ==
    IF recs = <<>> THEN 0
    ELSE (IF Head(recs).action = action THEN Head(recs).value ELSE 0)
         + SumRecorded(Tail(recs), action)

\* C30: from non-negative cash and prices the simulated cash is never
\* negative; every sell is applied, adding price x quantity, before any buy;
\* a buy whose value does not exceed the simulated cash is recorded and
\* deducted, any other is skipped with the cash unchanged.
C30_SimulatedCashNeverNegative ==
    /\ [](simulated_cash >= 0)
    /\ [](simulated_cash = current_cash + SumRecorded(simulated_orders, "SELL")
                                        - SumRecorded(simulated_orders, "BUY"))
    /\ [](spc \in {"buys", "returned"} =>
            /\ Len(simulated_orders) >= Len(sim_sell_orders)
            /\ \A i \in DOMAIN simulated_orders :
                  (simulated_orders[i].action = "SELL") <=> (i <= Len(sim_sell_orders))
            /\ \A i \in DOMAIN sim_sell_orders :
                  simulated_orders[i] = SimRecord("SELL", sim_sell_orders[i]))
    /\ [](spc = "sells" =>
            \A i \in DOMAIN simulated_orders : simulated_orders[i].action = "SELL")
    /\ [][ (spc = "buys" /\ sidx <= Len(sim_buy_orders) /\ sidx' = sidx + 1)
            => IF SimValue(sim_buy_orders[sidx]) <= simulated_cash
               THEN /\ simulated_cash' = simulated_cash - SimValue(sim_buy_orders[sidx])
                    /\ simulated_orders' =
                         Append(simulated_orders, SimRecord("BUY", sim_buy_orders[sidx]))
               ELSE /\ simulated_cash' = simulated_cash
                    /\ simulated_orders' = simulated_orders ]_vars

\* C30 witness: a simulation returned after a sell paid for one buy and a
\* second buy was skipped, leaving cash that the skipped buy exceeds.
C30_Witness ==
    /\ spc = "returned"
    /\ Len(sim_sell_orders) >= 1
    /\ Len(sim_buy_orders) = 2
    /\ Len(simulated_orders) = Len(sim_sell_orders) + 1
    /\ simulated_orders[Len(simulated_orders)].action = "BUY"
    /\ simulated_orders[Len(simulated_orders)].value > current_cash
    /\ simulated_cash < SimValue(sim_buy_orders[2])
    /\ simulated_orders[Len(simulated_orders)] = SimRecord("BUY", sim_buy_orders[1])

\* ---- the HTTP client

\* C29: a get / post / delete call sends at most two requests; the second is
\* sent only after a first one answered 401 and one forced
\* re-authentication; a second answer of 401, and any other failure status
\* of either answer, ends the call in WealthsimpleAPIError with no further
\* request.
C29_AtMostTwoRequests ==
    /\ Len(sent) <= 2
    /\ reauths <= 1
    /\ Len(sent) = 2 => (sent[1] = "401" /\ reauths = 1)
    /\ (cpc = "send" /\ sent # <<>>) => (sent = <<"401">> /\ reauths = 1)
    /\ (cpc = "done" /\ Len(sent) = 2 /\ sent[2] \in {"400", "401", "404", "500"})
          => outcome = "WealthsimpleAPIError"
    /\ (cpc = "done" /\ Len(sent) = 1 /\ sent[1] \in {"400", "404", "500"})
          => outcome = "WealthsimpleAPIError"

\* C29 witness: a post (place_order) was answered 401 twice and ended in
\* WealthsimpleAPIError after two requests.
C29_Witness ==
    /\ cpc = "done"
    /\ method = "post"
    /\ sent = <<"401", "401">>
    /\ reauths = 1
    /\ outcome = "WealthsimpleAPIError"

====
